---------------------------- MODULE Spec2Model ----------------------------
(***************************************************************************)
(* NMR T2-decay calculators: src/T2dist.py (two tabs) and                  *)
(* src/nmr_T2decay_model.py (one panel, the same code as tab 1).           *)
(*                                                                         *)
(* Python floats are modelled as exact real numbers of the form            *)
(* (n/d) * 10^e * pi^p, so that products, quotients and comparisons are    *)
(* exact; rounding of the last bits of a double is not modelled.  Two      *)
(* effects of the double format are modelled because they change results   *)
(* by more than rounding: math.exp underflows to 0.0 and overflows with    *)
(* OverflowError.  A value porosity * exp(x) is kept symbolically as the   *)
(* pair (porosity, x).                                                     *)
(*                                                                         *)
(* Intermediate values are bound with The({ ... : x \in {e} }), which      *)
(* reads "..., where x is e" and evaluates e once.                         *)
(***************************************************************************)
EXTENDS Integers, Sequences, FiniteSets, TLC

VARIABLES session, out, call, ret

vars == <<session, out, call, ret>>

The(S) == CHOOSE x \in S : TRUE

---------------------------------------------------------------------------
(* Exact numbers (n/d) * 10^e * pi^p.  Canonical form: n = 0 is Zero;      *)
(* otherwise gcd(n, d) = 1, d > 0 is coprime to 10 and 10 does not divide  *)
(* n, so that equal values are equal records.                              *)

Abs(i) == IF i < 0 THEN -i ELSE i

RECURSIVE GCD(_, _)
GCD(a, b) == IF b = 0 THEN a ELSE The({GCD(b, r) : r \in {a % b}})

Zero == [n |-> 0, d |-> 1, e |-> 0, p |-> 0]

\* moves the factors 2 and 5 of d, and the factors 10 of n, into 10^e
RECURSIVE Canon(_, _, _, _)
Canon(n, d, e, p) ==
    IF d % 2 = 0 THEN The({Canon(m, c, e - 1, p) : m \in {n * 5}, c \in {d \div 2}})
    ELSE IF d % 5 = 0 THEN The({Canon(m, c, e - 1, p) : m \in {n * 2}, c \in {d \div 5}})
    ELSE IF n % 10 = 0 THEN The({Canon(m, d, e + 1, p) : m \in {n \div 10}})
    ELSE [n |-> n, d |-> d, e |-> e, p |-> p]

\* (n/d) * 10^e * pi^p for d > 0
Norm(n, d, e, p) ==
    The({IF n0 = 0 THEN Zero
         ELSE The({Canon(n0 \div g, d0 \div g, e0, p0) : g \in {GCD(Abs(n0), d0)}}) :
         n0 \in {n}, d0 \in {d}, e0 \in {e}, p0 \in {p}})

Whole(i) == Norm(i, 1, 0, 0)
Dec(i, e) == Norm(i, 1, e, 0)
Frac(i, j) == Norm(i, j, 0, 0)

Neg(a) == The({[x EXCEPT !.n = -x.n] : x \in {a}})

Mul(a, b) ==
    The({IF x.n = 0 \/ y.n = 0 THEN Zero
         ELSE The({Norm((x.n \div g1) * (y.n \div g2), (x.d \div g2) * (y.d \div g1),
                        x.e + y.e, x.p + y.p) :
                   g1 \in {GCD(Abs(x.n), y.d)}, g2 \in {GCD(Abs(y.n), x.d)}}) :
         x \in {a}, y \in {b}})

Sign(i) == IF i < 0 THEN -1 ELSE 1

\* a / b for b # 0
Div(a, b) ==
    The({IF x.n = 0 THEN Zero
         ELSE The({Norm(Sign(y.n) * (x.n \div g1) * (y.d \div g2),
                        (x.d \div g2) * (Abs(y.n) \div g1),
                        x.e - y.e, x.p - y.p) :
                   g1 \in {GCD(Abs(x.n), Abs(y.n))}, g2 \in {GCD(x.d, y.d)}}) :
         x \in {a}, y \in {b}})

RECURSIVE Pow(_, _)
Pow(a, k) == IF k = 0 THEN Whole(1) ELSE Mul(a, Pow(a, k - 1))

IsZero(a) == a.n = 0
IsPos(a) == a.n > 0
IsNeg(a) == a.n < 0

\* l * 10^k < r for l, r > 0 and k >= 0, without forming l * 10^k
RECURSIVE ScaledLess(_, _, _)
ScaledLess(l, k, r) ==
    IF k = 0 THEN l < r
    ELSE IF l >= r THEN FALSE
    ELSE The({ScaledLess(m, k - 1, r) : m \in {l * 10}})

\* l * 10^k <= r for l, r > 0 and k >= 0
RECURSIVE ScaledLeq(_, _, _)
ScaledLeq(l, k, r) ==
    IF k = 0 THEN l <= r
    ELSE IF l >= r THEN FALSE
    ELSE The({ScaledLeq(m, k - 1, r) : m \in {l * 10}})

\* a < b for positive a, b with the same power of pi
PosLess(a, b) ==
    The({IF k >= 0 THEN ScaledLess(l, k, r) ELSE ~ScaledLeq(r, -k, l) :
         l \in {a.n * b.d}, r \in {b.n * a.d}, k \in {a.e - b.e}})

\* a < b for a, b with the same power of pi
Less(a, b) ==
    The({CASE IsNeg(x) /\ IsNeg(y) -> PosLess(Neg(y), Neg(x))
           [] IsNeg(x)             -> TRUE
           [] IsZero(x)            -> IsPos(y)
           [] OTHER                -> IsPos(y) /\ PosLess(x, y) :
         x \in {a}, y \in {b}})

Leq(a, b) == The({x = y \/ Less(x, y) : x \in {a}, y \in {b}})

Pi == [n |-> 1, d |-> 1, e |-> 0, p |-> 1]

---------------------------------------------------------------------------
(* Outcome of evaluating a Python expression: a value, or an exception.    *)

Return(v) == [kind |-> "return", value |-> v]
Raise(x) == [kind |-> "raise", exc |-> x]

\* a / b on floats
TrueDiv(a, b) ==
    The({IF IsZero(y) THEN Raise("ZeroDivisionError") ELSE Return(Div(a, y)) : y \in {b}})

---------------------------------------------------------------------------
(* Text of a text_input widget: a sequence of one-character strings.       *)
(* float() is modelled for texts of digits, ".", "+", "-", " ", "," and    *)
(* letters other than those of "inf", "nan" and exponents: an optional     *)
(* sign, then digits with at most one point and at least one digit.        *)

DigitChars == <<"0", "1", "2", "3", "4", "5", "6", "7", "8", "9">>
Digits == {DigitChars[i] : i \in 1..10}
DigitVal(c) == (CHOOSE i \in 1..10 : DigitChars[i] = c) - 1

\* s.split(","): the tokens between the commas; "" splits into one empty token
RECURSIVE Split(_)
Split(s) ==
    IF \E i \in 1..Len(s) : s[i] = ","
    THEN The({<<SubSeq(s, 1, i - 1)>> \o The({Split(rest) : rest \in {SubSeq(s, i + 1, Len(s))}}) :
              i \in {CHOOSE j \in 1..Len(s) : s[j] = "," /\ \A k \in 1..(j - 1) : s[k] # ","}})
    ELSE <<s>>

\* t.strip()
RECURSIVE Strip(_)
Strip(t) ==
    IF t = <<>> THEN t
    ELSE IF Head(t) = " " THEN The({Strip(u) : u \in {Tail(t)}})
    ELSE IF t[Len(t)] = " " THEN The({Strip(u) : u \in {SubSeq(t, 1, Len(t) - 1)}})
    ELSE t

\* the number written by the digits ds
RECURSIVE DigitsValue(_)
DigitsValue(ds) ==
    IF ds = <<>> THEN 0
    ELSE The({10 * DigitsValue(front) + DigitVal(ds[Len(ds)]) :
              front \in {SubSeq(ds, 1, Len(ds) - 1)}})

\* float(t) for the decimal literals [+-]digits[.digits]; anything else is a
\* ValueError (the exponent, inf, nan and underscore forms that float also
\* accepts do not occur in the texts below)
PyFloat(t) ==
    The({LET signed == tok # <<>> /\ Head(tok) \in {"-", "+"}
             body   == IF signed THEN Tail(tok) ELSE tok
             points == {i \in 1..Len(body) : body[i] = "."}
             ds     == SelectSeq(body, LAMBDA c : c \in Digits)
             wellformed == /\ \A i \in 1..Len(body) : body[i] \in Digits \cup {"."}
                           /\ Cardinality(points) <= 1
                           /\ ds # <<>>
             places == IF points = {} THEN 0
                       ELSE Len(body) - (CHOOSE i \in points : TRUE)
             mag    == DigitsValue(ds)
         IN  IF ~wellformed THEN Raise("ValueError")
             ELSE Return(Dec(IF signed /\ Head(tok) = "-" THEN -mag ELSE mag, -places)) :
         tok \in {t}})

\* [0.5, 1, 2, 4, 8, 16, 32, 64, 128, 256, 512, 1024]
DefaultT2Values ==
    <<Dec(5, -1), Whole(1), Whole(2), Whole(4), Whole(8), Whole(16), Whole(32),
      Whole(64), Whole(128), Whole(256), Whole(512), Whole(1024)>>

InvalidT2Message == "Invalid T2 values. Please enter comma-separated numbers."

\* try: [float(t.strip()) for t in text.split(",")]
\* except ValueError: st.error(...); the default list
ParseT2Values(text) ==
    The({IF \E i \in 1..Len(parsed) : parsed[i].kind = "raise"
         THEN [values |-> DefaultT2Values, errors |-> <<InvalidT2Message>>]
         ELSE [values |-> [i \in 1..Len(parsed) |-> parsed[i].value], errors |-> <<>>] :
         parsed \in {The({[i \in 1..Len(toks) |-> PyFloat(Strip(toks[i]))] :
                          toks \in {Split(text)}})}})

\* unit_options = {"µm": 1, "nm": 1000, "ms": 1, "s": 0.001}; "um" is "µm"
UnitSymbols == {"um", "nm", "ms", "s"}
unit_options(u) ==
    CASE u = "um" -> Whole(1)
      [] u = "nm" -> Whole(1000)
      [] u = "ms" -> Whole(1)
      [] u = "s"  -> Dec(1, -3)

\* [t * unit_options[time_unit] for t in slider_t2_values]
AdjustT2Values(values, time_unit) ==
    The({[i \in 1..Len(vs) |-> Mul(vs[i], f)] : vs \in {values}, f \in {unit_options(time_unit)}})

\* the T2 grid of a pass and the st.error calls made for it
T2Grid(text, time_unit) ==
    The({[values |-> AdjustT2Values(parsed.values, time_unit), errors |-> parsed.errors] :
         parsed \in {ParseT2Values(text)}})

---------------------------------------------------------------------------
(* Pore geometry and T2 (the functions are defined once, in tab 1, and     *)
(* used by both tabs).                                                     *)

\* the area with the square left out: 4 * math.pi * radius
calculate_surface_area_linear(radius) == Mul(Mul(Whole(4), Pi), radius)

\* 4 * math.pi * radius**2
calculate_surface_area(radius) == Mul(Mul(Whole(4), Pi), Pow(radius, 2))

\* the volume with the exponent of the area: (4/3) * math.pi * radius**2
calculate_volume_squared(radius) == Mul(Mul(Frac(4, 3), Pi), Pow(radius, 2))

\* (4/3) * math.pi * radius**3
calculate_volume(radius) == Mul(Mul(Frac(4, 3), Pi), Pow(radius, 3))

\* the ratio without the zero-volume branch: surface_area / volume
calculate_surface_to_volume_ratio_unguarded(surface_area, volume) ==
    TrueDiv(surface_area, volume)

\* surface_area / volume if volume != 0 else 0
calculate_surface_to_volume_ratio(surface_area, volume) ==
    IF ~IsZero(volume) THEN TrueDiv(surface_area, volume) ELSE Return(Zero)

InstabilityMessage ==
    "Numerical instability detected. Please check your input parameters."

\* the quotient without its parentheses: 1 / relaxivity * s_v
calculate_t2_unparenthesized(relaxivity, surface_to_volume_ratio) ==
    The({IF r.kind = "raise" /\ r.exc = "ZeroDivisionError"
         THEN [kind |-> "return", value |-> Zero, errors |-> <<InstabilityMessage>>]
         ELSE [kind |-> r.kind, value |-> Mul(r.value, surface_to_volume_ratio),
               errors |-> <<>>] :
         r \in {IF ~IsZero(surface_to_volume_ratio)
                THEN TrueDiv(Whole(1), relaxivity)
                ELSE Return(Zero)}})

\* the quotient without the test of s_v: a zero s_v goes to the except branch
calculate_t2_unguarded(relaxivity, surface_to_volume_ratio) ==
    The({IF r.kind = "raise" /\ r.exc = "ZeroDivisionError"
         THEN [kind |-> "return", value |-> Zero, errors |-> <<InstabilityMessage>>]
         ELSE [kind |-> r.kind, value |-> r.value, errors |-> <<>>] :
         r \in {TrueDiv(Whole(1), Mul(relaxivity, surface_to_volume_ratio))}})

\* try: return 1 / (relaxivity * s_v) if s_v != 0 else 0
\* except ZeroDivisionError: st.error(...); return 0
calculate_t2(relaxivity, surface_to_volume_ratio) ==
    The({IF r.kind = "raise" /\ r.exc = "ZeroDivisionError"
         THEN [kind |-> "return", value |-> Zero, errors |-> <<InstabilityMessage>>]
         ELSE [kind |-> r.kind, value |-> r.value, errors |-> <<>>] :
         r \in {IF ~IsZero(surface_to_volume_ratio)
                THEN TrueDiv(Whole(1), Mul(relaxivity, surface_to_volume_ratio))
                ELSE Return(Zero)}})

---------------------------------------------------------------------------
(* Magnetization.  A value c * exp(x) with c > 0 is the record [c, x];     *)
(* zero is EZero.                                                          *)

\* math.exp(x) of a double is 0.0 for every x <= -ExpUnderflow and raises
\* OverflowError for every x >= ExpOverflow; in between the value is kept
\* exact, as the magnitude exp(x)
ExpUnderflow == 746
ExpOverflow == 710

EZero == [c |-> 0, x |-> Zero]

MathExp(x) ==
    The({IF Leq(y, Whole(-ExpUnderflow)) THEN Return(EZero)
         ELSE IF Leq(Whole(ExpOverflow), y) THEN Raise("OverflowError")
         ELSE Return([c |-> 1, x |-> y]) :
         y \in {x}})

\* porosity * v for an integer porosity >= 0
Scale(porosity, v) ==
    IF porosity = 0 \/ v.c = 0 THEN EZero ELSE [c |-> porosity * v.c, x |-> v.x]

\* the decay with the sign of the exponent lost: porosity * math.exp(t / t2)
MtAt_growing(porosity, t2, t) ==
    IF IsPos(t2)
    THEN The({IF ex.kind = "raise" THEN ex ELSE Return(Scale(porosity, ex.value)) :
              ex \in {MathExp(Div(t, t2))}})
    ELSE Return(EZero)

\* the decay guarded by t2 != 0 instead of t2 > 0
MtAt_nonzero(porosity, t2, t) ==
    IF ~IsZero(t2)
    THEN The({IF ex.kind = "raise" THEN ex ELSE Return(Scale(porosity, ex.value)) :
              ex \in {MathExp(Div(Neg(t), t2))}})
    ELSE Return(EZero)

\* porosity * math.exp(-t / t2) if t2 > 0 else 0
MtAt(porosity, t2, t) ==
    IF IsPos(t2)
    THEN The({IF ex.kind = "raise" THEN ex ELSE Return(Scale(porosity, ex.value)) :
              ex \in {MathExp(Div(Neg(t), t2))}})
    ELSE Return(EZero)

\* [porosity * math.exp(-t / t2) if t2 > 0 else 0 for t in slider_t2_values]
MtValues(porosity, t2, T2) ==
    The({IF \E i \in 1..Len(each) : each[i].kind = "raise"
         THEN Raise("OverflowError")
         ELSE Return([i \in 1..Len(each) |-> each[i].value]) :
         each \in {[i \in 1..Len(T2) |-> MtAt(porosity, t2, T2[i])]}})

\* a < b for magnitudes with the same coefficient, or with one of them zero
ELess(a, b) ==
    CASE a.c = 0   -> b.c > 0
      [] b.c = 0   -> FALSE
      [] a.c = b.c -> Less(a.x, b.x)
      [] a.x = b.x -> a.c < b.c

ELeq(a, b) == a = b \/ ELess(a, b)

\* the number porosity as a magnitude: porosity * exp(0)
EWhole(porosity) == Scale(porosity, [c |-> 1, x |-> Zero])

---------------------------------------------------------------------------
(* One run of the script T2dist.py over the widget values s.  A run that   *)
(* raises an uncaught exception stops there: status names the exception    *)
(* and what was not computed is Undefined or empty.                        *)

Undefined == [kind |-> "undefined"]

FirstRaise(outcomes) ==
    IF \E i \in 1..Len(outcomes) : outcomes[i].kind = "raise"
    THEN outcomes[CHOOSE i \in 1..Len(outcomes) :
                      /\ outcomes[i].kind = "raise"
                      /\ \A j \in 1..(i - 1) : outcomes[j].kind # "raise"].exc
    ELSE "ok"

ValueOf(outcome) == IF outcome.kind = "return" THEN outcome.value ELSE Undefined

\* S/V and T2 of a radius with this surface area and volume
GeometryOf(relaxivity, radius, surface_area, volume) ==
    The({[radius |-> radius, surface_area |-> surface_area, volume |-> volume,
          s_v |-> s_v,
          t2 |-> IF s_v.kind = "return" THEN calculate_t2(relaxivity, s_v.value)
                 ELSE s_v] :
         s_v \in {calculate_surface_to_volume_ratio(surface_area, volume)}})

\* surface area, volume, S/V and T2 of one radius
Geometry(relaxivity, radius) ==
    The({GeometryOf(relaxivity, r, calculate_surface_area(r), calculate_volume(r)) :
         r \in {radius}})

\* a Mt column computed over the grid in reverse order
Column_reversed(porosity, t2, T2) ==
    IF t2.kind = "return"
    THEN MtValues(porosity, t2.value, [i \in 1..Len(T2) |-> T2[Len(T2) + 1 - i]])
    ELSE t2

\* a Mt column, once the T2 it needs has been computed
Column(porosity, t2, T2) ==
    IF t2.kind = "return" THEN MtValues(porosity, t2.value, T2) ELSE t2

RECURSIVE Concat(_)
Concat(ss) == IF ss = <<>> THEN <<>> ELSE Head(ss) \o Concat(Tail(ss))

\* the st.error calls made by calculate_t2
T2Errors(t2) == IF t2.kind = "return" THEN t2.errors ELSE <<>>

\* what a tab has computed: the grid, the geometries g and the Mt columns mt
Results(grid, g, mt) ==
    The({[status |-> status,
          errors |-> grid.errors \o Concat([k \in 1..Len(g) |-> T2Errors(g[k].t2)]),
          T2 |-> grid.values,
          radius |-> [k \in 1..Len(g) |-> g[k].radius],
          surface_area |-> [k \in 1..Len(g) |-> g[k].surface_area],
          volume |-> [k \in 1..Len(g) |-> g[k].volume],
          surface_to_volume_ratio |-> [k \in 1..Len(g) |-> ValueOf(g[k].s_v)],
          t2 |-> [k \in 1..Len(g) |-> ValueOf(g[k].t2)],
          Mt |-> IF status = "ok" THEN [k \in 1..Len(mt) |-> mt[k].value] ELSE <<>>] :
         status \in {FirstRaise([k \in 1..Len(g) |-> g[k].s_v] \o
                                [k \in 1..Len(g) |-> g[k].t2] \o mt)}})

\* the three Mt columns of tab 1: one T2, three porosities
Tab1Columns(s, grid, g) ==
    <<Column(s.porosity_1_tab1, g.t2, grid.values),
      Column(s.porosity_2_tab1, g.t2, grid.values),
      Column(s.porosity_3_tab1, g.t2, grid.values)>>

\* tab 1: one radius, three porosities
RunTab1(s) ==
    The({The({Results(grid, <<g>>, mt) : mt \in {Tab1Columns(s, grid, g)}}) :
         grid \in {T2Grid(s.custom_t2_values_tab1, s.time_unit_tab1)},
         g \in {Geometry(s.relaxivity_tab1,
                         Mul(s.bore_radius_tab1, unit_options(s.radius_unit_tab1)))}})

\* the geometries of tab 2: three radii in the selected unit
Tab2Geometries(s) ==
    The({<<Geometry(s.relaxivity_tab2, Mul(s.pore_size_1_tab2, f)),
           Geometry(s.relaxivity_tab2, Mul(s.pore_size_2_tab2, f)),
           Geometry(s.relaxivity_tab2, Mul(s.pore_size_3_tab2, f))>> :
         f \in {unit_options(s.radius_unit_tab2)}})

\* the three Mt columns of tab 2: three T2, one porosity
Tab2Columns(s, grid, g) ==
    <<Column(s.porosity_tab2, g[1].t2, grid.values),
      Column(s.porosity_tab2, g[2].t2, grid.values),
      Column(s.porosity_tab2, g[3].t2, grid.values)>>

\* tab 2: three radii, one porosity
RunTab2(s) ==
    The({The({Results(grid, g, mt) : mt \in {Tab2Columns(s, grid, g)}}) :
         grid \in {T2Grid(s.custom_t2_values_tab2, s.time_unit_tab2)},
         g \in {Tab2Geometries(s)}})

NotRun == [status |-> "not run", errors |-> <<>>, T2 |-> <<>>, radius |-> <<>>,
           surface_area |-> <<>>, volume |-> <<>>, surface_to_volume_ratio |-> <<>>,
           t2 |-> <<>>, Mt |-> <<>>]

\* the script runs top to bottom: tab 1, then tab 2 unless tab 1 raised
Rerun(s) ==
    The({[tab1 |-> r1, tab2 |-> IF r1.status = "ok" THEN RunTab2(s) ELSE NotRun] :
         r1 \in {RunTab1(s)}})

---------------------------------------------------------------------------
(* The session: one value per widget, keyed by the widget's key.  The      *)
(* script is a function of the session; a run is explored for every        *)
(* combination of the widget values below.                                 *)

\* "0.5, 1, 2, 4, 8, 16, 32, 64, 128, 256, 512, 1024"
DefaultText ==
    <<"0", ".", "5", ",", " ", "1", ",", " ", "2", ",", " ", "4", ",", " ",
      "8", ",", " ", "1", "6", ",", " ", "3", "2", ",", " ", "6", "4", ",",
      " ", "1", "2", "8", ",", " ", "2", "5", "6", ",", " ", "5", "1", "2",
      ",", " ", "1", "0", "2", "4">>

\* "abc, 1, 2"
MalformedText ==
    <<"a", "b", "c", ",", " ", "1", ",", " ", "2">>

\* "1,,2"
EmptyTokenText ==
    <<"1", ",", ",", "2">>

\* "1, 2, 4"
ShortText ==
    <<"1", ",", " ", "2", ",", " ", "4">>

\* "-1, 1"
NegativeText ==
    <<"-", "1", ",", " ", "1">>

\* "0, 1"
ZeroText ==
    <<"0", ",", " ", "1">>

\* "2, 1, 1"
UnorderedText ==
    <<"2", ",", " ", "1", ",", " ", "1">>

\* "-100000, 1"
HugeNegativeText ==
    <<"-", "1", "0", "0", "0", "0", "0", ",", " ", "1">>

\* texts entered in the text inputs
SampleTexts == {DefaultText, MalformedText, EmptyTokenText, ShortText,
                NegativeText, ZeroText, UnorderedText, HugeNegativeText}

\* slider positions explored: relaxivity 0.001..0.01 step 0.001, radius
\* 0.0..1.0 step 0.01, porosity 0..100 step 1
RelaxivityValues == {Dec(k, -3) : k \in {3, 10}}
RadiusValues == {Dec(k, -2) : k \in {0, 1, 25, 50, 100}}
PorosityValues == {0, 30, 100}

DefaultSession ==
    [relaxivity_tab1 |-> Dec(3, -3), bore_radius_tab1 |-> Dec(5, -1),
     porosity_1_tab1 |-> 30, porosity_2_tab1 |-> 20, porosity_3_tab1 |-> 10,
     custom_t2_values_tab1 |-> DefaultText,
     radius_unit_tab1 |-> "um", time_unit_tab1 |-> "um",
     relaxivity_tab2 |-> Dec(3, -3), pore_size_1_tab2 |-> Whole(1),
     pore_size_2_tab2 |-> Dec(5, -1), pore_size_3_tab2 |-> Dec(25, -2),
     porosity_tab2 |-> 50, custom_t2_values_tab2 |-> DefaultText,
     radius_unit_tab2 |-> "um", time_unit_tab2 |-> "um"]

\* sessions in which the widgets of tab 1 have been set
Tab1Sessions ==
    {[DefaultSession EXCEPT !.relaxivity_tab1 = a, !.bore_radius_tab1 = r,
                            !.porosity_1_tab1 = p[1], !.porosity_2_tab1 = p[2],
                            !.porosity_3_tab1 = p[3],
                            !.custom_t2_values_tab1 = t,
                            !.radius_unit_tab1 = u[1], !.time_unit_tab1 = u[2]] :
        a \in RelaxivityValues, r \in RadiusValues,
        p \in PorosityValues \X {0, 20} \X {10, 100},
        t \in SampleTexts, u \in UnitSymbols \X UnitSymbols}

\* sessions in which the widgets of tab 2 have been set
Tab2Sessions ==
    {[DefaultSession EXCEPT !.relaxivity_tab2 = a, !.pore_size_1_tab2 = r[1],
                            !.pore_size_2_tab2 = r[2], !.pore_size_3_tab2 = r[3],
                            !.porosity_tab2 = p,
                            !.custom_t2_values_tab2 = t,
                            !.radius_unit_tab2 = u[1], !.time_unit_tab2 = u[2]] :
        a \in RelaxivityValues,
        r \in {Whole(1), Zero} \X {Dec(5, -1), Dec(1, -2)} \X RadiusValues,
        p \in {0, 50, 100},
        t \in SampleTexts, u \in UnitSymbols \X UnitSymbols}

NotCalled == [fn |-> "none"]
Pending == [tab1 |-> NotRun, tab2 |-> NotRun]

\* streamlit runs the script over the session
RunScript ==
    /\ out = Pending
    /\ out' = Rerun(session)
    /\ UNCHANGED <<session, call, ret>>

InitTab1 ==
    /\ session \in Tab1Sessions
    /\ out = Pending
    /\ call = NotCalled
    /\ ret = NotCalled

InitTab2 ==
    /\ session \in Tab2Sessions
    /\ out = Pending
    /\ call = NotCalled
    /\ ret = NotCalled

SpecTab1 == InitTab1 /\ [][RunScript]_vars

SpecTab2 == InitTab2 /\ [][RunScript]_vars

\* the runs of both families of sessions
InitTabs == InitTab1 \/ InitTab2

SpecTabs == InitTabs /\ [][RunScript]_vars

---------------------------------------------------------------------------
(* The functions on their own: one call, with arguments drawn from the     *)
(* sets below, which include arguments no widget produces (relaxivity      *)
(* <= 0, T2 < 0).                                                          *)

\* slider ranges in steps: relaxivity 0.001 * (1..10); radius 0.01 * (0..100)
\* in T2dist.py and 0.1 * (1..50) in nmr_T2decay_model.py
RelaxivityMaxStep == 10
RadiusMaxStep == 100
SphereRadiusMaxStep == 50

\* every radius a radius slider and a unit selection produce
RadiusArgs ==
    {Mul(r, unit_options(u)) :
        r \in {Dec(k, -2) : k \in 0..RadiusMaxStep} \cup
              {Dec(k, -1) : k \in 1..SphereRadiusMaxStep},
        u \in UnitSymbols}

RelaxivityArgs == {Dec(k, -3) : k \in (-RelaxivityMaxStep)..RelaxivityMaxStep}

SurfaceToVolumeArgs ==
    {Zero, Whole(3), Whole(6), Whole(12), Whole(300), Dec(3, -3), Dec(6, 3),
     Neg(Whole(6))}

T2Args ==
    {Zero, Frac(500, 9), Frac(1, 3), Frac(1000, 3), Neg(Frac(500, 9)), Neg(Frac(1, 3))}

T2GridArgs == {T2Grid(t, u).values : t \in SampleTexts, u \in UnitSymbols}

Calls ==
    [fn : {"geometry"}, radius : RadiusArgs] \cup
    [fn : {"calculate_t2"}, relaxivity : RelaxivityArgs,
     surface_to_volume_ratio : SurfaceToVolumeArgs] \cup
    [fn : {"mt_values"}, porosity : PorosityValues, t2 : T2Args, T2 : T2GridArgs]

\* surface area, volume and S/V of call.radius
CallGeometry ==
    /\ call.fn = "geometry"
    /\ ret = NotCalled
    /\ ret' = The({[surface_area |-> a, volume |-> v,
                    surface_to_volume_ratio |->
                        calculate_surface_to_volume_ratio(a, v)] :
                   a \in {calculate_surface_area(call.radius)},
                   v \in {calculate_volume(call.radius)}})
    /\ UNCHANGED <<session, out, call>>

CallCalculateT2 ==
    /\ call.fn = "calculate_t2"
    /\ ret = NotCalled
    /\ ret' = calculate_t2(call.relaxivity, call.surface_to_volume_ratio)
    /\ UNCHANGED <<session, out, call>>

CallMtValues ==
    /\ call.fn = "mt_values"
    /\ ret = NotCalled
    /\ ret' = MtValues(call.porosity, call.t2, call.T2)
    /\ UNCHANGED <<session, out, call>>

InitFn ==
    /\ session = DefaultSession
    /\ out = Pending
    /\ call \in Calls
    /\ ret = NotCalled

NextFn ==
    \/ CallGeometry
    \/ CallCalculateT2
    \/ CallMtValues

SpecFn == InitFn /\ [][NextFn]_vars

---------------------------------------------------------------------------
(* The scripts over everything the relaxivity, radius and radius-unit      *)
(* widgets produce.  nmr_T2decay_model.py is the code of tab 1 with its    *)
(* own radius slider (0.1 to 5.0); its widget values are kept under the    *)
(* keys of tab 1.                                                          *)

\* T2dist.py: the same relaxivity, radius and radius unit in both tabs (in
\* tab 2 for the first pore size)
T2distSessions ==
    {[DefaultSession EXCEPT
        !.relaxivity_tab1 = Dec(x, -3), !.relaxivity_tab2 = Dec(x, -3),
        !.bore_radius_tab1 = Dec(r, -2), !.pore_size_1_tab2 = Dec(r, -2),
        !.radius_unit_tab1 = u, !.radius_unit_tab2 = u] :
        x \in 1..RelaxivityMaxStep, r \in 0..RadiusMaxStep, u \in UnitSymbols}

\* nmr_T2decay_model.py: also the first porosity and the time unit
NmrSessions ==
    {[DefaultSession EXCEPT
        !.relaxivity_tab1 = Dec(x, -3),
        !.bore_radius_tab1 = Dec(r, -1),
        !.radius_unit_tab1 = u,
        !.porosity_1_tab1 = p,
        !.time_unit_tab1 = t] :
        x \in 1..RelaxivityMaxStep, r \in 1..SphereRadiusMaxStep, u \in UnitSymbols,
        p \in {0, 30}, t \in {"um", "nm"}}

\* one run of T2dist.py
RunT2dist ==
    /\ call.fn = "T2dist"
    /\ RunScript

\* one run of nmr_T2decay_model.py: the pass of tab 1, and no tab 2
RunNmr ==
    /\ call.fn = "nmr_T2decay_model"
    /\ out = Pending
    /\ out' = [tab1 |-> RunTab1(session), tab2 |-> NotRun]
    /\ UNCHANGED <<session, call, ret>>

InitWidgets ==
    /\ \/ call = [fn |-> "T2dist"] /\ session \in T2distSessions
       \/ call = [fn |-> "nmr_T2decay_model"] /\ session \in NmrSessions
    /\ out = Pending
    /\ ret = NotCalled

NextWidgets ==
    \/ RunT2dist
    \/ RunNmr

SpecWidgets == InitWidgets /\ [][NextWidgets]_vars

---------------------------------------------------------------------------
(* Properties.                                                             *)

\* some comma-separated token of the text is empty or is no number
HasBadToken(text) ==
    \E toks \in {Split(text)} :
        \E i \in 1..Len(toks) : PyFloat(Strip(toks[i])).kind = "raise"

StrictlyIncreasing(T2) == \A i \in 1..(Len(T2) - 1) : Less(T2[i], T2[i + 1])

NonNegative(T2) == \A i \in 1..Len(T2) : ~IsNeg(T2[i])

Tab1Ran == out.tab1.status # "not run"
Tab2Ran == out.tab2.status # "not run"
Called == ret # NotCalled

Tab1Porosity(k) ==
    <<session.porosity_1_tab1, session.porosity_2_tab1, session.porosity_3_tab1>>[k]

\* C1: whenever a token of the T2 text of tab 1 is empty or no number, the
\* grid of the pass is exactly the default sequence 0.5, 1, ..., 1024,
\* whatever time unit is selected.
C1_FallbackIsDefaultGrid ==
    (Tab1Ran /\ HasBadToken(session.custom_t2_values_tab1))
        => out.tab1.T2 = DefaultT2Values

\* C2: every sample of the T2 grid of a pass is strictly positive (a text
\* with a zero or negative value falls back to the default grid).
C2_GridStrictlyPositive ==
    Tab1Ran => \A i \in 1..Len(out.tab1.T2) : IsPos(out.tab1.T2[i])

\* C3 as claimed: for T2 > 0 and a strictly increasing grid, each Mt column
\* is strictly decreasing and every value lies in [0, porosity], for every
\* porosity 0..100.
C3_MtStrictlyDecreasing ==
    (Tab1Ran /\ IsPos(out.tab1.t2[1]) /\ StrictlyIncreasing(out.tab1.T2))
        => /\ out.tab1.status = "ok"
           /\ \A k \in 1..3 :
                \E Mt \in {out.tab1.Mt[k]} :
                    /\ \A i \in 1..(Len(Mt) - 1) : ELess(Mt[i + 1], Mt[i])
                    /\ \A i \in 1..Len(Mt) :
                         ELeq(EZero, Mt[i]) /\ ELeq(Mt[i], EWhole(Tab1Porosity(k)))

\* C3 amended: for T2 > 0 and a strictly increasing grid of non-negative
\* samples, every Mt value lies in [0, porosity] and each value is strictly
\* below the one before it or is 0 (all values are 0 for porosity 0, and 0
\* from the sample on at which exp underflows).
C3_MtDecreasingUntilZero ==
    (Tab1Ran /\ IsPos(out.tab1.t2[1]) /\ StrictlyIncreasing(out.tab1.T2)
             /\ NonNegative(out.tab1.T2))
        => /\ out.tab1.status = "ok"
           /\ \A k \in 1..3 :
                \E Mt \in {out.tab1.Mt[k]} :
                    /\ Len(Mt) = Len(out.tab1.T2)
                    /\ \A i \in 1..(Len(Mt) - 1) :
                         ELess(Mt[i + 1], Mt[i]) \/ Mt[i + 1] = EZero
                    /\ \A i \in 1..Len(Mt) :
                         ELeq(EZero, Mt[i]) /\ ELeq(Mt[i], EWhole(Tab1Porosity(k)))

\* a pass with T2 > 0 over an increasing non-negative grid whose first
\* column starts above 0 and ends at 0
C3_Witness ==
    /\ out.tab1.status = "ok"
    /\ IsPos(out.tab1.t2[1])
    /\ StrictlyIncreasing(out.tab1.T2)
    /\ NonNegative(out.tab1.T2)
    /\ Len(out.tab1.T2) >= 2
    /\ session.porosity_1_tab1 > 0
    /\ out.tab1.Mt[1][1] # EZero
    /\ out.tab1.Mt[1][Len(out.tab1.T2)] = EZero

\* radii 1.0, 0.5, 0.25 um, relaxivity 0.003, porosity 50 %
C4_Scenario ==
    /\ session.pore_size_1_tab2 = Whole(1)
    /\ session.pore_size_2_tab2 = Dec(5, -1)
    /\ session.pore_size_3_tab2 = Dec(25, -2)
    /\ session.radius_unit_tab2 = "um"
    /\ session.relaxivity_tab2 = Dec(3, -3)
    /\ session.porosity_tab2 = 50

\* C4 as claimed: in that scenario T2(radius 0.25) = 4 * T2(radius 1.0).
C4_SmallPoreT2IsFourfold ==
    (Tab2Ran /\ C4_Scenario) => out.tab2.t2[3] = Mul(Whole(4), out.tab2.t2[1])

\* C4 amended: in that scenario T2(radius 1.0) = 4 * T2(radius 0.25).
C4_LargePoreT2IsFourfold ==
    (Tab2Ran /\ C4_Scenario) => out.tab2.t2[1] = Mul(Whole(4), out.tab2.t2[3])

C4_Witness == out.tab2.status = "ok" /\ C4_Scenario /\ IsPos(out.tab2.t2[3])

\* C5: calculate_t2 with relaxivity <= 0 fails with an error, for every
\* surface-to-volume ratio; it never returns a value.
C5_NonPositiveRelaxivityFails ==
    (call.fn = "calculate_t2" /\ Called /\ ~IsPos(call.relaxivity))
        => ret.kind = "raise"

\* C6: for relaxivity > 0, calculate_t2 returns 0 when S/V is 0 and
\* otherwise the T2 with T2 * relaxivity * S/V = 1; the result is >= 0
\* whenever S/V >= 0.
C6_T2Derivation ==
    (call.fn = "calculate_t2" /\ Called /\ IsPos(call.relaxivity))
        => /\ ret.kind = "return"
           /\ IsZero(call.surface_to_volume_ratio) => ret.value = Zero
           /\ ~IsZero(call.surface_to_volume_ratio) =>
                Mul(Mul(ret.value, call.relaxivity), call.surface_to_volume_ratio)
                    = Whole(1)
           /\ ~IsNeg(call.surface_to_volume_ratio) => ~IsNeg(ret.value)

C6_Witness ==
    /\ call.fn = "calculate_t2"
    /\ Called
    /\ IsPos(call.relaxivity)
    /\ IsPos(call.surface_to_volume_ratio)
    /\ ret.kind = "return"
    /\ IsPos(ret.value)

\* C7: for radius 0 the surface area, the volume and S/V are all 0, and
\* nothing is raised.
C7_ZeroRadius ==
    (call.fn = "geometry" /\ Called /\ IsZero(call.radius))
        => /\ ret.surface_area = Zero
           /\ ret.volume = Zero
           /\ ret.surface_to_volume_ratio = Return(Zero)

C7_Witness == call.fn = "geometry" /\ Called /\ IsZero(call.radius)

\* C8: for every radius r > 0, surface_area / volume is 3 / r.
C8_SurfaceToVolumeIsThreeOverR ==
    (call.fn = "geometry" /\ Called /\ IsPos(call.radius))
        => ret.surface_to_volume_ratio = Return(Div(Whole(3), call.radius))

C8_Witness ==
    /\ call.fn = "geometry"
    /\ Called
    /\ call.radius = Dec(5, -1)
    /\ ret.surface_to_volume_ratio = Return(Whole(6))

\* C9: for T2 <= 0 and a non-empty grid, the Mt column has the length of
\* the grid and all its values are 0.
C9_NonPositiveT2GivesZeros ==
    (call.fn = "mt_values" /\ Called /\ ~IsPos(call.t2) /\ Len(call.T2) >= 1)
        => /\ ret.kind = "return"
           /\ Len(ret.value) = Len(call.T2)
           /\ \A i \in 1..Len(call.T2) : ret.value[i] = EZero

C9_Witness ==
    /\ call.fn = "mt_values"
    /\ Called
    /\ IsNeg(call.t2)
    /\ call.porosity > 0
    /\ Len(call.T2) >= 2
    /\ ret.kind = "return"

\* C10: a pass that meets a degenerate condition emits an advisory for it
\* and completes: zero S/V or T2 <= 0 comes with a message about it, and a
\* text with a bad token with the invalid-T2 message; the Mt columns are
\* complete.
C10_DegenerateConditionsAdvised ==
    Tab1Ran =>
        /\ HasBadToken(session.custom_t2_values_tab1) =>
             /\ out.tab1.status = "ok"
             /\ \A k \in 1..3 : Len(out.tab1.Mt[k]) = Len(out.tab1.T2)
             /\ \E i \in 1..Len(out.tab1.errors) :
                  out.tab1.errors[i] = InvalidT2Message
        /\ (IsZero(out.tab1.surface_to_volume_ratio[1]) \/ ~IsPos(out.tab1.t2[1])) =>
             /\ out.tab1.status = "ok"
             /\ \A k \in 1..3 :
                  /\ Len(out.tab1.Mt[k]) = Len(out.tab1.T2)
                  /\ \A i \in 1..Len(out.tab1.T2) : out.tab1.Mt[k][i] = EZero
             /\ \E i \in 1..Len(out.tab1.errors) :
                  out.tab1.errors[i] # InvalidT2Message


\* the unit symbols of each axis: lengths in um or nm, times in ms or s
LengthUnitSymbols == {"um", "nm"}
TimeUnitSymbols == {"ms", "s"}

\* C11: a pass whose radius unit is no length unit, or whose time unit is
\* no time unit, fails with an invalid-unit error: no radius is scaled by
\* the factor of a time unit and no T2 grid by the factor of a length unit.
C11_UnitAxesChecked ==
    (Tab1Ran /\ (\/ session.radius_unit_tab1 \notin LengthUnitSymbols
                 \/ session.time_unit_tab1 \notin TimeUnitSymbols))
        => out.tab1.status = "InvalidUnitError"

\* the Mt columns mt over the axis T2 are as long as the axis, and the
\* value at index i is the decay of column k at T2[i]
Aligned(T2, mt, porosity, t2) ==
    \A k \in 1..3 :
        /\ Len(mt[k]) = Len(T2)
        /\ \A i \in 1..Len(T2) :
             Return(mt[k][i]) = MtAt(porosity[k], t2[k], T2[i])

\* C12: in every pass that produces its tables, in both tabs and on the
\* parsed and the fallback path, the columns Mt1, Mt2, Mt3 have the length
\* of the T2 column and Mt_k[i] is computed from the T2 value at index i.
C12_TablesAligned ==
    /\ out.tab1.status = "ok" =>
         Aligned(out.tab1.T2, out.tab1.Mt,
                 <<session.porosity_1_tab1, session.porosity_2_tab1,
                   session.porosity_3_tab1>>,
                 <<out.tab1.t2[1], out.tab1.t2[1], out.tab1.t2[1]>>)
    /\ out.tab2.status = "ok" =>
         Aligned(out.tab2.T2, out.tab2.Mt,
                 <<session.porosity_tab2, session.porosity_tab2,
                   session.porosity_tab2>>,
                 out.tab2.t2)

\* tab 1 on the fallback path and tab 2 on the parsed path, both with
\* tables whose first column is not constant
C12_Witness ==
    /\ out.tab1.status = "ok"
    /\ out.tab2.status = "ok"
    /\ out.tab1.errors = <<InvalidT2Message>>
    /\ out.tab2.errors = <<>>
    /\ Len(out.tab1.T2) = 12
    /\ out.tab1.Mt[1][1] # out.tab1.Mt[1][12]
    /\ out.tab2.Mt[1][1] # out.tab2.Mt[1][Len(out.tab2.T2)]

\* the session s with the widgets of tab 1, or of tab 2, back at their
\* defaults
WithDefaultTab1(s) ==
    [s EXCEPT !.relaxivity_tab1 = DefaultSession.relaxivity_tab1,
              !.bore_radius_tab1 = DefaultSession.bore_radius_tab1,
              !.porosity_1_tab1 = DefaultSession.porosity_1_tab1,
              !.porosity_2_tab1 = DefaultSession.porosity_2_tab1,
              !.porosity_3_tab1 = DefaultSession.porosity_3_tab1,
              !.custom_t2_values_tab1 = DefaultSession.custom_t2_values_tab1,
              !.radius_unit_tab1 = DefaultSession.radius_unit_tab1,
              !.time_unit_tab1 = DefaultSession.time_unit_tab1]

WithDefaultTab2(s) ==
    [s EXCEPT !.relaxivity_tab2 = DefaultSession.relaxivity_tab2,
              !.pore_size_1_tab2 = DefaultSession.pore_size_1_tab2,
              !.pore_size_2_tab2 = DefaultSession.pore_size_2_tab2,
              !.pore_size_3_tab2 = DefaultSession.pore_size_3_tab2,
              !.porosity_tab2 = DefaultSession.porosity_tab2,
              !.custom_t2_values_tab2 = DefaultSession.custom_t2_values_tab2,
              !.radius_unit_tab2 = DefaultSession.radius_unit_tab2,
              !.time_unit_tab2 = DefaultSession.time_unit_tab2]

\* C13: the results of tab 2 depend on the inputs of tab 2 only, and those
\* of tab 1 on the inputs of tab 1 only: after a run, each tab shows what a
\* run shows with the other tab's widgets at their defaults.
C13_TabsIndependent ==
    out # Pending =>
        /\ out.tab2 = Rerun(WithDefaultTab1(session)).tab2
        /\ out.tab1 = Rerun(WithDefaultTab2(session)).tab1

AllZero(column) == \A i \in 1..Len(column) : column[i] = EZero

\* the T2 of radius slider value radius is 0 if the value is 0 and
\* positive otherwise
ZeroIffZeroRadius(radius, t2) ==
    IF IsZero(radius) THEN t2 = Zero ELSE IsPos(t2)

NoInstability(errors) == \A i \in 1..Len(errors) : errors[i] # InstabilityMessage

\* the part of C14 on T2: T2 is 0 exactly for radius slider value 0, and the
\* ZeroDivisionError branch of calculate_t2 is not reached
C14_WidgetT2 ==
    /\ out.tab1.status = "ok"
    /\ ZeroIffZeroRadius(session.bore_radius_tab1, out.tab1.t2[1])
    /\ NoInstability(out.tab1.errors)
    /\ call.fn = "T2dist" =>
         /\ out.tab2.status = "ok"
         /\ ZeroIffZeroRadius(session.pore_size_1_tab2, out.tab2.t2[1])
         /\ NoInstability(out.tab2.errors)
    /\ call.fn = "nmr_T2decay_model" => IsPos(out.tab1.t2[1])

\* C14 as claimed: over all widget inputs T2 is 0 exactly when the radius
\* slider value is 0 and positive otherwise, the ZeroDivisionError branch
\* is never reached, and in nmr_T2decay_model.py T2 is positive and no Mt
\* column is all zero.
C14_NoAllZeroCurve ==
    out # Pending =>
        /\ C14_WidgetT2
        /\ call.fn = "nmr_T2decay_model" =>
             \A k \in 1..3 : ~AllZero(out.tab1.Mt[k])

\* C14 amended: ... and in nmr_T2decay_model.py T2 is positive, so a Mt
\* column is all zero only for porosity 0 or where exp(-t/T2) underflows to
\* 0 at every sample of the grid.
C14_AllZeroCurveOnlyByPorosityOrUnderflow ==
    out # Pending =>
        /\ C14_WidgetT2
        /\ call.fn = "nmr_T2decay_model" =>
             \A k \in 1..3 :
                AllZero(out.tab1.Mt[k]) =>
                    \/ Tab1Porosity(k) = 0
                    \/ \A i \in 1..Len(out.tab1.T2) :
                         Leq(Div(Neg(out.tab1.T2[i]), out.tab1.t2[1]),
                             Whole(-ExpUnderflow))

\* a run of nmr_T2decay_model.py with porosity 0: T2 is positive and the
\* first Mt column is all zero
C14_Witness ==
    /\ call.fn = "nmr_T2decay_model"
    /\ out.tab1.status = "ok"
    /\ session.porosity_1_tab1 = 0
    /\ IsPos(out.tab1.t2[1])
    /\ AllZero(out.tab1.Mt[1])

=============================================================================
